---- MODULE Spec2Model ----
(***************************************************************************)
(* The enrichment task-orchestration service: the enqueue endpoint and its *)
(* fan-out job (routes.py, services.py), the aggregator callback and its   *)
(* aggregation job (services.py), and the task store with its atomic       *)
(* append-and-advance script (redis_client.py).                            *)
(*                                                                         *)
(* Numbers: a confidence score is kept in tenths (5 stands for 0.5).       *)
(***************************************************************************)
EXTENDS Integers, Sequences, FiniteSets, Bags, TLC

\* ---------------------------------------------------------------- bounds
MaxJobs  == 2      \* aggregator callbacks submitted in one behaviour
MaxBatch == 2      \* companies in one enqueued batch
MaxContacts == 2   \* contacts in one worker report

TaskIds   == {"t1", "t2"}
Jobs      == 1..MaxJobs
Companies == 1..MaxBatch

\* ------------------------------------------------------ program constants
MIN_CONFIDENCE_SCORE == 5      \* 0.5, in tenths
max_retries == 3
batch_size  == 10

\* ------------------------------------------------------------ JSON values
NoCompany == 0          \* companyId None / absent
NoName    == "none"     \* companyName None / absent
NoValue   == "none"     \* a contact field that is None / absent
NoScore   == -1         \* confidenceScore absent

FieldNames == {"firstName", "lastName", "email", "phone", "linkedinUrl", "role"}

\* A JSON list: the items, and whether the text in the store is an object
\* ("{}") instead of an array ("[]"); only an empty list can be an object.
JList(s) == [isObject |-> FALSE, items |-> s]

\* One field of a contact in a worker report: absent, a plain value, or a
\* nested {value, sources, confidence} object.
Absent    == [shape |-> "absent", value |-> NoValue]
Plain(v)  == [shape |-> "plain",  value |-> v]
Nested(v) == [shape |-> "nested", value |-> v]

\* ------------------------------------------------------------- the state
VARIABLES
  env,        \* the process environment: QUEUE_ENRICHMENT, SERVICEBUS_CONNECTION_STRING, WEBHOOK_URL
  emptyTableAsObject, \* whether the store's cjson.encode writes an empty table as {}
  store,      \* the task store: key task:<task_id> -> record, for the keys that exist
  enq,        \* per task id: position of the enqueue_enrichment handler
  formData,   \* per task id: the batch submitted (sequence of company ids)
  fan,        \* per task id: the fan-out job process_enqueue_enrichment
  queue,      \* the bag of messages sent to the queue
  job,        \* per callback: the aggregation job process_enrichment_aggregation
  posts,      \* the webhook POSTs attempted, in order
  response    \* the last response of a polling endpoint

vars == <<env, emptyTableAsObject, store, enq, formData, fan, queue, job, posts, response>>

\* ------------------------------------------------------------ models.py
Names == <<"A", "B", "C", "D", "E", "F", "G", "H", "I", "J", "K", "L">>

\* CompanyInput: one requested company. large: the name is so long that the
\* message built for the company does not fit a queue batch.
CompanyInput(c, large) == [companyName |-> Names[c], companyId |-> c, large |-> large]

\* EnrichmentInput.formData for a batch of n companies.
Batch(n, L) == [i \in 1..n |-> CompanyInput(i, i \in L)]
Batches == {Batch(n, L) : n \in 0..MaxBatch, L \in SUBSET Companies}
\* The batches in which every message fits.
PlainBatches == {Batch(n, {}) : n \in 0..MaxBatch}
\* The batches above and one that does not fit a single queue batch.
SendBatches == Batches \cup {Batch(batch_size + 1, {})}

\* ContactWithSources as it arrives in a report.
ContactWithSources(field, score) ==
  [fields |-> [f \in FieldNames |-> field], confidenceScore |-> score]

\* The data of a callback. kind: "none" (no data, JSON null), "empty" (the
\* empty object), "report" (an object with fields). error: the object has a
\* non-empty "error" field. origin names the callback that supplied it; the
\* program stores no such field, it is kept for the properties only.
NoData == [kind |-> "none", companyId |-> NoCompany, companyName |-> NoName,
           contacts |-> JList(<<>>), error |-> FALSE, origin |-> 0]
EmptyData == [NoData EXCEPT !.kind = "empty"]
Report(c, contacts) ==
  [kind |-> "report", companyId |-> c, companyName |-> Names[c],
   contacts |-> JList(contacts), error |-> FALSE, origin |-> 0]

\* Python truthiness of the optional dict.
Truthy(data) == data.kind = "report"

\* ------------------------------------------------- redis_client.py (Lua)
\* cjson.decode followed by cjson.encode: an empty table is written as {}
\* when the store's cjson encodes empty tables as objects.
CjsonList(l, asObject) ==
  IF l.items = <<>> THEN [l EXCEPT !.isObject = (asObject \/ l.isObject)] ELSE l

\* A number goes through cjson.encode with 14 significant digits: of a time
\* in seconds since the epoch (10 digits before the point) 4 decimals stay.
CjsonNumber(x) == [x EXCEPT !.micros = ((@ + 50) \div 100) * 100]

CjsonResult(r, asObject) == [r EXCEPT !.contacts = CjsonList(@, asObject)]

\* Variants of the script with one slip each.
\* The counter is set from the length of results before the append.
update_and_check_task_script_stale(data, result, asObject) ==
  LET results == Append(data.results, CjsonResult(result, asObject))
      numTasksCompleted == Len(data.results)
      just_completed ==
        IF numTasksCompleted = data.numTasks /\ data.status # "completed"
        THEN 1 ELSE 0
  IN [data  |-> [data EXCEPT !.results = results,
                             !.numTasksCompleted = numTasksCompleted,
                             !.status = IF just_completed = 1 THEN "completed" ELSE @,
                             !.errors = CjsonList(@, asObject),
                             !.create_time = CjsonNumber(@)],
      reply |-> <<numTasksCompleted, data.numTasks, just_completed>>]

\* The flag is raised whenever the counter has reached the total.
update_and_check_task_script_refire(data, result, asObject) ==
  LET results == Append(data.results, CjsonResult(result, asObject))
      numTasksCompleted == data.numTasksCompleted + 1
      just_completed == IF numTasksCompleted >= data.numTasks THEN 1 ELSE 0
  IN [data  |-> [data EXCEPT !.results = results,
                             !.numTasksCompleted = numTasksCompleted,
                             !.status = IF just_completed = 1 THEN "completed" ELSE @,
                             !.errors = CjsonList(@, asObject),
                             !.create_time = CjsonNumber(@)],
      reply |-> <<numTasksCompleted, data.numTasks, just_completed>>]

\* The status is not written.
update_and_check_task_script_nostatus(data, result, asObject) ==
  LET results == Append(data.results, CjsonResult(result, asObject))
      numTasksCompleted == data.numTasksCompleted + 1
      just_completed ==
        IF numTasksCompleted = data.numTasks /\ data.status # "completed"
        THEN 1 ELSE 0
  IN [data  |-> [data EXCEPT !.results = results,
                             !.numTasksCompleted = numTasksCompleted,
                             !.errors = CjsonList(@, asObject),
                             !.create_time = CjsonNumber(@)],
      reply |-> <<numTasksCompleted, data.numTasks, just_completed>>]

\* A null result is not inserted.
update_and_check_task_script_nonull(data, result, asObject) ==
  LET results == IF result.kind = "none" THEN data.results
                 ELSE Append(data.results, CjsonResult(result, asObject))
      numTasksCompleted == data.numTasksCompleted + 1
      just_completed ==
        IF numTasksCompleted = data.numTasks /\ data.status # "completed"
        THEN 1 ELSE 0
  IN [data  |-> [data EXCEPT !.results = results,
                             !.numTasksCompleted = numTasksCompleted,
                             !.status = IF just_completed = 1 THEN "completed" ELSE @,
                             !.errors = CjsonList(@, asObject),
                             !.create_time = CjsonNumber(@)],
      reply |-> <<numTasksCompleted, data.numTasks, just_completed>>]

\* The record is not written back.
update_and_check_task_script_nosave(data, result, asObject) ==
  LET numTasksCompleted == data.numTasksCompleted + 1
      just_completed ==
        IF numTasksCompleted = data.numTasks /\ data.status # "completed"
        THEN 1 ELSE 0
  IN [data  |-> data,
      reply |-> <<numTasksCompleted, data.numTasks, just_completed>>]

\* The counter is advanced by two.
update_and_check_task_script_twice(data, result, asObject) ==
  LET results == Append(data.results, CjsonResult(result, asObject))
      numTasksCompleted == data.numTasksCompleted + 2
      just_completed ==
        IF numTasksCompleted = data.numTasks /\ data.status # "completed"
        THEN 1 ELSE 0
  IN [data  |-> [data EXCEPT !.results = results,
                             !.numTasksCompleted = numTasksCompleted,
                             !.status = IF just_completed = 1 THEN "completed" ELSE @,
                             !.errors = CjsonList(@, asObject),
                             !.create_time = CjsonNumber(@)],
      reply |-> <<numTasksCompleted, data.numTasks, just_completed>>]

\* The total is compared one callback early.
update_and_check_task_script_early(data, result, asObject) ==
  LET results == Append(data.results, CjsonResult(result, asObject))
      numTasksCompleted == data.numTasksCompleted + 1
      just_completed ==
        IF numTasksCompleted + 1 = data.numTasks /\ data.status # "completed"
        THEN 1 ELSE 0
  IN [data  |-> [data EXCEPT !.results = results,
                             !.numTasksCompleted = numTasksCompleted,
                             !.status = IF just_completed = 1 THEN "completed" ELSE @,
                             !.errors = CjsonList(@, asObject),
                             !.create_time = CjsonNumber(@)],
      reply |-> <<numTasksCompleted, data.numTasks, just_completed>>]

\* _UPDATE_AND_CHECK_TASK_LUA on an existing key: the new record and the
\* reply {numTasksCompleted, numTasks, just_completed}.
update_and_check_task_script(data, result, asObject) ==
  LET results == Append(data.results, CjsonResult(result, asObject))
      numTasksCompleted == data.numTasksCompleted + 1
      just_completed ==
        IF numTasksCompleted = data.numTasks /\ data.status # "completed"
        THEN 1 ELSE 0
  IN [data  |-> [data EXCEPT !.results = results,
                             !.numTasksCompleted = numTasksCompleted,
                             !.status = IF just_completed = 1 THEN "completed" ELSE @,
                             !.errors = CjsonList(@, asObject),
                             !.create_time = CjsonNumber(@)],
      reply |-> <<numTasksCompleted, data.numTasks, just_completed>>]

\* ------------------------------------------------------------ services.py
\* ScraperAggregatedOutput(**company_result) validates.
TypedParses(r) ==
  /\ r.kind = "report"
  /\ r.companyId # NoCompany
  /\ r.companyName # NoName
  /\ ~r.contacts.isObject
  /\ \A i \in 1..Len(r.contacts.items) :
       /\ r.contacts.items[i].confidenceScore \in 0..10
       /\ \A f \in FieldNames : r.contacts.items[i].fields[f].shape # "plain"

\* The flattened Contact of the typed path.
TypedContact(contact) ==
  [fields |-> [f \in FieldNames |->
                 IF contact.fields[f].shape = "nested"
                 THEN contact.fields[f].value ELSE NoValue],
   confidenceScore |-> contact.confidenceScore]

\* contact.get("confidenceScore", 0)
FallbackScore(contact) ==
  IF contact.confidenceScore = NoScore THEN 0 ELSE contact.confidenceScore

\* A variant of the fallback path that reads a field only when it is an object.
FallbackContact_plainlost(contact) ==
  [fields |-> [f \in FieldNames |->
                 IF contact.fields[f].shape = "nested" THEN contact.fields[f].value
                 ELSE NoValue],
   confidenceScore |-> FallbackScore(contact)]

\* The flattened Contact of the fallback path.
FallbackContact(contact) ==
  [fields |-> [f \in FieldNames |->
                 IF contact.fields[f].shape = "nested" THEN contact.fields[f].value
                 ELSE IF contact.fields[f].shape = "plain" THEN contact.fields[f].value
                 ELSE NoValue],
   confidenceScore |-> FallbackScore(contact)]

\* A variant whose threshold is exclusive.
TypedKeeps_strict(contact) == contact.confidenceScore > MIN_CONFIDENCE_SCORE

TypedKeeps(contact) == contact.confidenceScore >= MIN_CONFIDENCE_SCORE
FallbackKeeps(contact) == FallbackScore(contact) >= MIN_CONFIDENCE_SCORE

RECURSIVE MapSeq(_, _)
MapSeq(s, typed) ==
  IF s = <<>> THEN <<>>
  ELSE <<IF typed THEN TypedContact(Head(s)) ELSE FallbackContact(Head(s))>>
       \o MapSeq(Tail(s), typed)

\* The fallback path raises: .get on a non-dict, a kept contact whose score
\* Contact rejects, or CompanyResult without companyId or companyName.
FallbackRaises(r) ==
  \/ r.kind = "none"
  \/ \E i \in 1..Len(r.contacts.items) :
       FallbackKeeps(r.contacts.items[i]) /\ FallbackScore(r.contacts.items[i]) > 10
  \/ r.companyId = NoCompany
  \/ r.companyName = NoName

\* filter_low_confidence_contacts: the CompanyResult, or raised.
filter_low_confidence_contacts(company_result) ==
  IF TypedParses(company_result)
  THEN [raised |-> FALSE, companyId |-> company_result.companyId,
        companyName |-> company_result.companyName,
        contacts |-> MapSeq(SelectSeq(company_result.contacts.items, TypedKeeps), TRUE),
        origin |-> company_result.origin]
  ELSE IF FallbackRaises(company_result)
  THEN [raised |-> TRUE, companyId |-> NoCompany, companyName |-> NoName,
        contacts |-> <<>>, origin |-> company_result.origin]
  ELSE [raised |-> FALSE, companyId |-> company_result.companyId,
        companyName |-> company_result.companyName,
        contacts |-> MapSeq(SelectSeq(company_result.contacts.items, FallbackKeeps), FALSE),
        origin |-> company_result.origin]

\* get_redis_data: 404 when the key is absent, 400 when the record does not
\* validate as EnrichmentRedisData (errors must be a list), else the record.
get_redis_data(st, task_id) ==
  IF task_id \notin DOMAIN st THEN 404
  ELSE IF st[task_id].errors.isObject THEN 400
  ELSE 200

\* A variant that skips nothing.
HasNoError_all(result) == TRUE

\* "if result.get("error"): continue" lets the entry through.
HasNoError(result) == ~result.error

\* The loop over redis_data.results of the completion path and of
\* get_task_results: raises when result.get fails (the entry is not a dict)
\* or the filter raises; entries with an error marker are skipped.
ResultsRaise(results) ==
  \E i \in 1..Len(results) :
    \/ results[i].kind = "none"
    \/ HasNoError(results[i]) /\ filter_low_confidence_contacts(results[i]).raised

RECURSIVE FilterAll(_)
FilterAll(results) ==
  IF results = <<>> THEN <<>>
  ELSE <<filter_low_confidence_contacts(Head(results))>> \o FilterAll(Tail(results))

\* A variant that builds the payload from the newest entry alone.
filtered_results_last(results) ==
  FilterAll(SelectSeq(SubSeq(results, Len(results), Len(results)), HasNoError))

filtered_results(results) == FilterAll(SelectSeq(results, HasNoError))

\* ------------------------------------------------------- inputs of a run
Hook == "http://hook"

hi == ContactWithSources(Nested("x"), 5)
lo == ContactWithSources(Nested("x"), 4)

\* The data a callback may carry: none, a report on a company, a report
\* that itself carries an error marker.
DataChoices ==
  {NoData, [Report(1, <<hi>>) EXCEPT !.error = TRUE]}
    \cup {Report(c, <<hi, lo>>) : c \in {1, 2}}

\* The callbacks of the aggregation side: data and whether an error object
\* comes with it.
CallbackChoices ==
  {<<NoData, FALSE>>, <<NoData, TRUE>>,
   <<Report(1, <<hi, lo>>), FALSE>>, <<Report(1, <<hi, lo>>), TRUE>>,
   <<Report(2, <<hi, lo>>), FALSE>>,
   <<[Report(1, <<hi>>) EXCEPT !.error = TRUE], FALSE>>}

\* The callbacks of a worker: a report on the company, or an error.
WorkerChoices ==
  {<<NoData, TRUE>>} \cup {<<Report(c, <<hi, lo>>), FALSE>> : c \in {1, 2}}

\* The contacts of a worker report on the filter side: every field a nested
\* object, every field a plain value, nested objects with one field absent,
\* a mix of the three; with a score below or at the threshold, or none.
FieldChoices ==
  {[f \in FieldNames |-> Nested("x")],
   [f \in FieldNames |-> Plain("x")],
   [f \in FieldNames |-> IF f = "email" THEN Absent ELSE Nested("y")],
   [f \in FieldNames |-> IF f = "email" THEN Absent
                         ELSE IF f = "role" THEN Plain("y") ELSE Nested("y")]}
ScoreChoices == {NoScore, 4, 5}
ContactChoices == [fields : FieldChoices, confidenceScore : ScoreChoices]

\* The reports on company 1 with at most MaxContacts contacts.
FilterReports ==
  {Report(1, cs) : cs \in UNION {[1..n -> ContactChoices] : n \in 0..MaxContacts}}

\* The batch of one company.
OneCompanyBatches == {Batch(1, {})}

IdleJob == [pc |-> "idle", task_id |-> "t1", data |-> NoData, error |-> FALSE,
            fromQueue |-> FALSE, reply |-> <<0, 0, 0>>, outcome |-> "none"]
IdleFan == [pc |-> "none", attempt |-> 0, i |-> 0]
NoResponse == [endpoint |-> "none", task_id |-> "t1", code |-> 0, status |-> "none",
               progress |-> <<0, 0>>, create_time |-> [seconds |-> 0, micros |-> 0],
               results |-> <<>>]

Init ==
  /\ env \in [queue_name : BOOLEAN, connection_string : BOOLEAN, webhook_url : {"", Hook}]
  /\ emptyTableAsObject \in BOOLEAN
  /\ store = [t \in {} |-> 0]
  /\ enq = [t \in TaskIds |-> "idle"]
  /\ formData = [t \in TaskIds |-> <<>>]
  /\ fan = [t \in TaskIds |-> IdleFan]
  /\ queue = EmptyBag
  /\ job = [j \in Jobs |-> IdleJob]
  /\ posts = <<>>
  /\ response = NoResponse

\* ------------------------------------------------------------- routes.py
\* time.time() at the enqueue request: seconds since the epoch and the
\* microseconds of the reading.
Now == [seconds |-> 1762273000, micros |-> 123456]

\* The record enqueue_enrichment writes.
InitialRecord(task_id, input_data, webhook_url) ==
  [task_id |-> task_id, status |-> "pending", create_time |-> Now,
   numTasks |-> Len(input_data),
   numTasksCompleted |-> 0, results |-> <<>>, errors |-> JList(<<>>),
   webhookUrl |-> webhook_url]

\* What follows the store write of enqueue_enrichment when it succeeded.
AfterWrite(ok) == IF ok THEN "written" ELSE "failed"

\* enqueue_enrichment up to and including redis_client.setex; the write may
\* fail at the store, which ends the request with an error.
enqueue_write(t, input_data, ok) ==
  /\ enq[t] = "idle"
  /\ enq' = [enq EXCEPT ![t] = AfterWrite(ok)]
  /\ formData' = [formData EXCEPT ![t] = IF ok THEN input_data ELSE <<>>]
  /\ store' = IF ok
              THEN [k \in DOMAIN store \cup {t} |->
                      IF k = t THEN InitialRecord(t, input_data, env.webhook_url)
                      ELSE store[k]]
              ELSE store
  /\ UNCHANGED <<env, emptyTableAsObject, fan, queue, job, posts, response>>

\* A variant that schedules the job although the write failed.
MaySchedule_any(state) == state \in {"written", "failed"}

\* The handler may go on to schedule the fan-out job.
MaySchedule(state) == state = "written"

\* enqueue_enrichment from background_tasks.add_task to the response.
enqueue_respond(t) ==
  /\ MaySchedule(enq[t])
  /\ enq' = [enq EXCEPT ![t] = "responded"]
  /\ fan' = [fan EXCEPT ![t] = [pc |-> "scheduled", attempt |-> 0, i |-> 0]]
  /\ UNCHANGED <<env, emptyTableAsObject, store, formData, queue, job, posts, response>>

\* aggregate_enrichment: schedules the aggregation job and responds.
\* fromQueue: the caller is a worker that consumed a queue message of task t
\* (it reports on that message's company or reports no data); otherwise the
\* caller is anyone.
aggregate_enrichment(j, t, data, error, fromQueue) ==
  /\ job[j].pc = "idle"
  /\ \A k \in Jobs : k < j => job[k].pc # "idle"
  /\ fromQueue =>
       \E m \in BagToSet(queue) :
         m.task_id = t /\ (data.kind = "none" \/ data.companyId = m.company_id)
  /\ job' = [job EXCEPT ![j] = [IdleJob EXCEPT !.pc = "scheduled", !.task_id = t,
                                               !.data = [data EXCEPT !.origin = j],
                                               !.error = error, !.fromQueue = fromQueue]]
  /\ UNCHANGED <<env, emptyTableAsObject, store, enq, formData, fan, queue, posts, response>>

\* The time-to-live of a key runs out.
Expire(t) ==
  /\ t \in DOMAIN store
  /\ store' = [k \in DOMAIN store \ {t} |-> store[k]]
  /\ UNCHANGED <<env, emptyTableAsObject, enq, formData, fan, queue, job, posts, response>>

\* ------------------------------------- services.py: the fan-out job
\* A variant that returns only when both settings are absent.
MissingConfiguration_both(e) == ~e.queue_name /\ ~e.connection_string

\* "if not queue_name or not connection_string"
MissingConfiguration(e) == ~e.queue_name \/ ~e.connection_string

\* The messages of data_to_send at the positions in idx, as a bag.
RECURSIVE MessageBag(_, _, _)
MessageBag(t, input_data, idx) ==
  IF idx = {} THEN EmptyBag
  ELSE LET k == CHOOSE x \in idx : TRUE
       IN SetToBag({[task_id |-> t, company_name |-> input_data[k].companyName,
                     company_id |-> input_data[k].companyId]})
          (+) MessageBag(t, input_data, idx \ {k})

\* A variant that tests the webhook URL the wrong way round.
EmptyBatchPosts_inverted(e, input_data) ==
  IF ~MissingConfiguration(e) /\ Len(input_data) = 0 /\ e.webhook_url = ""
  THEN <<[kind |-> "empty", url |-> e.webhook_url, taskId |-> "none", results |-> <<>>]>>
  ELSE <<>>

\* The webhook POSTs the start of the fan-out job makes.
EmptyBatchPosts(e, input_data) ==
  IF ~MissingConfiguration(e) /\ Len(input_data) = 0 /\ e.webhook_url # ""
  THEN <<[kind |-> "empty", url |-> e.webhook_url, taskId |-> "none", results |-> <<>>]>>
  ELSE <<>>

\* process_enqueue_enrichment up to the retry loop: the configuration check
\* and the empty batch. postOk: requests.post returned (it has no handler
\* here, so its exception ends the job).
fan_start(t, postOk) ==
  /\ fan[t].pc = "scheduled"
  /\ posts' = posts \o EmptyBatchPosts(env, formData[t])
  /\ fan' = [fan EXCEPT ![t].pc =
               IF MissingConfiguration(env) THEN "returned"
               ELSE IF Len(formData[t]) = 0
                    THEN (IF env.webhook_url # "" /\ ~postOk THEN "raised" ELSE "returned")
                    ELSE "sending"]
  /\ (postOk \/ EmptyBatchPosts(env, formData[t]) # <<>>)
  /\ UNCHANGED <<env, emptyTableAsObject, store, enq, formData, queue, job, response>>

\* A variant that takes everything that is left as one slice.
ChunkEnd_whole(i, n) == n

\* The last position of the slice data_to_send[i : i + batch_size].
ChunkEnd(i, n) == IF i + batch_size < n THEN i + batch_size ELSE n

\* One pass of "for i in range(0, len(data_to_send), batch_size)": the
\* messages the batch refuses as too large are skipped, the rest is sent.
fan_send_batch(t) ==
  LET n == Len(formData[t])
      chunk == (fan[t].i + 1)..ChunkEnd(fan[t].i, n)
      skipped == {k \in chunk : formData[t][k].large}
  IN /\ fan[t].pc = "sending"
     /\ fan[t].i < n
     /\ queue' = queue (+) MessageBag(t, formData[t], chunk \ skipped)
     /\ fan' = [fan EXCEPT ![t].i = @ + batch_size]
     /\ UNCHANGED <<env, emptyTableAsObject, store, enq, formData, job, posts, response>>

\* The attempt ends without an exception: break.
fan_finish(t) ==
  /\ fan[t].pc = "sending"
  /\ fan[t].i >= Len(formData[t])
  /\ fan' = [fan EXCEPT ![t].pc = "returned"]
  /\ UNCHANGED <<env, emptyTableAsObject, store, enq, formData, queue, job, posts, response>>

\* A variant that allows one attempt more.
LastAttempt_late(attempt) == attempt = max_retries

\* "if attempt == max_retries - 1"
LastAttempt(attempt) == attempt = max_retries - 1

\* An exception inside the attempt (client construction, send, close): the
\* last attempt re-raises, an earlier one starts the next attempt.
fan_fail(t) ==
  /\ fan[t].pc = "sending"
  /\ fan' = [fan EXCEPT ![t] =
               IF LastAttempt(fan[t].attempt)
               THEN [@ EXCEPT !.pc = "raised"]
               ELSE [@ EXCEPT !.attempt = @ + 1, !.i = 0]]
  /\ UNCHANGED <<env, emptyTableAsObject, store, enq, formData, queue, job, posts, response>>

\* ------------------------------------- services.py: the aggregation job
\* The placeholder report of a callback with an error and no data.
Placeholder(j) ==
  [kind |-> "report", companyId |-> NoCompany, companyName |-> NoName,
   contacts |-> JList(<<>>), error |-> TRUE, origin |-> j]

\* "if error: data = data or {placeholder}"
StoredData(data, error, j) ==
  IF error THEN (IF Truthy(data) THEN data ELSE Placeholder(j)) ELSE data

\* A variant of the script that starts a record when the key is absent.
ScriptWrite_invent(st, t, result, asObject) ==
  IF t \in DOMAIN st
  THEN [st EXCEPT ![t] = update_and_check_task_script(st[t], result, asObject).data]
  ELSE [k \in DOMAIN st \cup {t} |->
          IF k = t
          THEN [InitialRecord(t, <<>>, "") EXCEPT
                  !.results = <<CjsonResult(result, asObject)>>,
                  !.numTasksCompleted = 1]
          ELSE st[k]]

\* The store after the script ran on key task:<t>: "if not raw then return
\* {err = 'NOT_FOUND'}" writes nothing, otherwise the record is written back.
ScriptWrite(st, t, result, asObject) ==
  IF t \in DOMAIN st
  THEN [st EXCEPT ![t] = update_and_check_task_script(st[t], result, asObject).data]
  ELSE st

\* process_enrichment_aggregation up to the progress log: the script call.
\* The call raises when the key is absent (NOT_FOUND) or the store fails
\* (fails: the script did not run).
aggregation_script(j, fails) ==
  LET t == job[j].task_id
      result == StoredData(job[j].data, job[j].error, j)
      r == update_and_check_task_script(store[t], result, emptyTableAsObject)
  IN /\ job[j].pc = "scheduled"
     /\ store' = IF fails THEN store ELSE ScriptWrite(store, t, result, emptyTableAsObject)
     /\ IF t \notin DOMAIN store \/ fails
        THEN job' = [job EXCEPT ![j].pc = "done", ![j].outcome = "scriptFailed"]
        ELSE job' = [job EXCEPT ![j].reply = r.reply,
                                ![j].pc = IF r.reply[3] = 1 THEN "completing" ELSE "done",
                                ![j].outcome = IF r.reply[3] = 1 THEN "none" ELSE "progress"]
     /\ UNCHANGED <<env, emptyTableAsObject, enq, formData, fan, queue, posts, response>>

\* How the "if just_completed == 1" branch ends.
DeliverOutcome(st, t, readFails) ==
  IF readFails THEN "storeError"
  ELSE IF get_redis_data(st, t) = 404 THEN "notFound"
  ELSE IF get_redis_data(st, t) = 400 THEN "invalidData"
  ELSE IF ResultsRaise(st[t].results) THEN "crashed"
  ELSE IF st[t].webhookUrl = "" THEN "noWebhook"
  ELSE "posted"

\* process_enrichment_aggregation from "if just_completed == 1" to the end.
aggregation_deliver(j, readFails) ==
  LET t == job[j].task_id
      outcome == DeliverOutcome(store, t, readFails)
  IN /\ job[j].pc = "completing"
     /\ job' = [job EXCEPT ![j].pc = "done", ![j].outcome = outcome]
     /\ posts' = IF outcome = "posted"
                 THEN Append(posts, [kind |-> "completion", url |-> store[t].webhookUrl,
                                     taskId |-> t,
                                     results |-> filtered_results(store[t].results)])
                 ELSE posts
     /\ UNCHANGED <<env, emptyTableAsObject, store, enq, formData, fan, queue, response>>

\* ------------------------------------------- routes.py: polling endpoints
\* get_task_status
get_task_status(t) ==
  LET code == get_redis_data(store, t)
  IN /\ response' =
          IF code # 200 THEN [NoResponse EXCEPT !.endpoint = "status", !.task_id = t, !.code = code]
          ELSE [NoResponse EXCEPT !.endpoint = "status", !.task_id = t, !.code = 200,
                                  !.status = store[t].status,
                                  !.create_time = store[t].create_time,
                                  !.progress = <<store[t].numTasksCompleted, store[t].numTasks>>]
     /\ UNCHANGED <<env, emptyTableAsObject, store, enq, formData, fan, queue, job, posts>>

\* The response of get_task_results.
TaskResults(st, t) ==
  LET code == get_redis_data(st, t)
      r == [NoResponse EXCEPT !.endpoint = "results", !.task_id = t]
  IN IF code # 200 THEN [r EXCEPT !.code = code]
     ELSE IF st[t].status # "completed"
     THEN [r EXCEPT !.code = 200, !.status = st[t].status,
                    !.progress = <<st[t].numTasksCompleted, st[t].numTasks>>]
     ELSE IF ResultsRaise(st[t].results) THEN [r EXCEPT !.code = 500]
     ELSE [r EXCEPT !.code = 200, !.status = "completed",
                    !.results = filtered_results(st[t].results)]

get_task_results(t) ==
  /\ response' = TaskResults(store, t)
  /\ UNCHANGED <<env, emptyTableAsObject, store, enq, formData, fan, queue, job, posts>>

\* ------------------------------------------------------ specifications
\* The whole service.
Next ==
  \/ \E t \in TaskIds, b \in Batches, ok \in BOOLEAN : enqueue_write(t, b, ok)
  \/ \E t \in TaskIds : enqueue_respond(t)
  \/ \E t \in TaskIds, postOk \in BOOLEAN : fan_start(t, postOk)
  \/ \E t \in TaskIds : fan_send_batch(t)
  \/ \E t \in TaskIds : fan_finish(t)
  \/ \E t \in TaskIds : fan_fail(t)
  \/ \E j \in Jobs, t \in TaskIds, d \in DataChoices, e \in BOOLEAN, w \in BOOLEAN :
       aggregate_enrichment(j, t, d, e, w)
  \/ \E j \in Jobs, fails \in BOOLEAN : aggregation_script(j, fails)
  \/ \E j \in Jobs, readFails \in BOOLEAN : aggregation_deliver(j, readFails)
  \/ \E t \in TaskIds : Expire(t)
  \/ \E t \in TaskIds : get_task_status(t)
  \/ \E t \in TaskIds : get_task_results(t)

Spec == Init /\ [][Next]_vars

\* The aggregation side: one task is enqueued and callbacks for it come from
\* any caller. The fan-out job is left out: it reads env
\* and formData and writes fan, queue and posts only, so the queue settings
\* it reads are fixed.
InitAgg == Init /\ env.queue_name /\ env.connection_string

NextAgg ==
  \/ \E b \in PlainBatches, ok \in BOOLEAN : enqueue_write("t1", b, ok)
  \/ enqueue_respond("t1")
  \/ \E j \in Jobs, c \in CallbackChoices :
       aggregate_enrichment(j, "t1", c[1], c[2], FALSE)
  \/ \E j \in Jobs, fails \in BOOLEAN : aggregation_script(j, fails)
  \/ \E j \in Jobs, readFails \in BOOLEAN : aggregation_deliver(j, readFails)
  \/ Expire("t1")

SpecAgg == InitAgg /\ [][NextAgg]_vars

\* The fan-out side: one task is enqueued and fanned out; the callbacks are
\* those of workers that consumed a queue message, and of other callers
\* without data. The fan-out job never reads what the store's script wrote,
\* so the store's encoding of empty tables is fixed.
InitFan == Init /\ ~emptyTableAsObject

NextFan ==
  \/ \E b \in Batches, ok \in BOOLEAN : enqueue_write("t1", b, ok)
  \/ enqueue_respond("t1")
  \/ \E postOk \in BOOLEAN : fan_start("t1", postOk)
  \/ fan_send_batch("t1")
  \/ fan_finish("t1")
  \/ fan_fail("t1")
  \/ \E j \in Jobs, c \in WorkerChoices :
       aggregate_enrichment(j, "t1", c[1], c[2], TRUE)
  \/ \E j \in Jobs : aggregate_enrichment(j, "t1", NoData, FALSE, FALSE)
  \/ \E j \in Jobs, fails \in BOOLEAN : aggregation_script(j, fails)
  \/ \E j \in Jobs, readFails \in BOOLEAN : aggregation_deliver(j, readFails)

SpecFan == InitFan /\ [][NextFan]_vars

\* The polling side: the aggregation side and the two polling endpoints, for
\* the task that is enqueued and for a task id that never was.
NextPoll ==
  \/ NextAgg
  \/ \E t \in TaskIds : get_task_status(t)
  \/ \E t \in TaskIds : get_task_results(t)

SpecPoll == InitAgg /\ [][NextPoll]_vars

\* The filter side: one company is enqueued and one worker reports on it
\* with any of the reports above; the report goes through the store and the
\* completing call filters it for the webhook.
InitFilter == InitAgg /\ env.webhook_url = Hook

NextFilter ==
  \/ \E b \in OneCompanyBatches, ok \in BOOLEAN : enqueue_write("t1", b, ok)
  \/ enqueue_respond("t1")
  \/ \E r \in FilterReports : aggregate_enrichment(1, "t1", r, FALSE, FALSE)
  \/ \E j \in Jobs, fails \in BOOLEAN : aggregation_script(j, fails)
  \/ \E j \in Jobs, readFails \in BOOLEAN : aggregation_deliver(j, readFails)

SpecFilter == InitFilter /\ [][NextFilter]_vars

\* The aggregation side without store failure and without expiry, the
\* deferred jobs scheduled fairly: a job that has been handed to the
\* background runner is run to its end.
LiveChoices ==
  {<<NoData, TRUE>>, <<Report(1, <<hi, lo>>), FALSE>>, <<Report(2, <<hi, lo>>), FALSE>>}

NextLive ==
  \/ \E b \in PlainBatches : enqueue_write("t1", b, TRUE)
  \/ enqueue_respond("t1")
  \/ \E j \in Jobs, c \in LiveChoices :
       aggregate_enrichment(j, "t1", c[1], c[2], FALSE)
  \/ \E j \in Jobs : aggregation_script(j, FALSE)
  \/ \E j \in Jobs : aggregation_deliver(j, FALSE)

SpecLive ==
  /\ InitAgg
  /\ [][NextLive]_vars
  /\ \A j \in Jobs : WF_vars(aggregation_script(j, FALSE))
  /\ \A j \in Jobs : WF_vars(aggregation_deliver(j, FALSE))

\* Two task ids side by side: "t1" is enqueued and its record may expire,
\* "t2" is never created, and callbacks name either id.
TwoChoices == {<<NoData, TRUE>>, <<Report(1, <<hi, lo>>), FALSE>>}

NextTwo ==
  \/ \E b \in PlainBatches : enqueue_write("t1", b, TRUE)
  \/ enqueue_respond("t1")
  \/ \E j \in Jobs, t \in TaskIds, c \in TwoChoices :
       aggregate_enrichment(j, t, c[1], c[2], FALSE)
  \/ \E j \in Jobs : aggregation_script(j, FALSE)
  \/ \E j \in Jobs : aggregation_deliver(j, FALSE)
  \/ Expire("t1")

SpecTwo == InitAgg /\ [][NextTwo]_vars

\* The sending side: one task is enqueued and its fan-out job runs; the job
\* runs in a worker thread of its own and is not held up for ever.
FanStep(t) == fan_start(t, TRUE) \/ fan_send_batch(t) \/ fan_finish(t)

NextSend ==
  \/ \E b \in SendBatches, ok \in BOOLEAN : enqueue_write("t1", b, ok)
  \/ enqueue_respond("t1")
  \/ \E postOk \in BOOLEAN : fan_start("t1", postOk)
  \/ fan_send_batch("t1")
  \/ fan_finish("t1")
  \/ fan_fail("t1")

SpecSend == InitFan /\ [][NextSend]_vars /\ WF_vars(FanStep("t1"))

\* ================================================================ claims
\* The callbacks whose script call succeeded at the store, for task t.
ScriptDone(j) ==
  job[j].pc \in {"completing", "done"} /\ job[j].outcome # "scriptFailed"
Succeeded(t) == {j \in Jobs : ScriptDone(j) /\ job[j].task_id = t}

\* The calls that received just_completed = 1, the calls that posted, and
\* the completion POSTs, for task t.
JustCompleted(t) == {j \in Jobs : job[j].task_id = t /\ job[j].reply[3] = 1}
Posted(t) == {j \in Jobs : job[j].task_id = t /\ job[j].outcome = "posted"}
CompletionPosts(t) ==
  {i \in 1..Len(posts) : posts[i].kind = "completion" /\ posts[i].taskId = t}

\* C1: while the record of a task exists, its numTasksCompleted equals the
\* number of callbacks whose append-and-advance succeeded for it, and these
\* calls were answered the counts 1, 2, ..., k, one each: no increment is
\* lost and none counts twice, whatever the interleaving.
C1_NoLostIncrement ==
  \A t \in DOMAIN store :
    /\ store[t].numTasksCompleted = Cardinality(Succeeded(t))
    /\ {job[j].reply[1] : j \in Succeeded(t)} = 1..Cardinality(Succeeded(t))

\* Two callbacks of one task were scheduled together and both have been
\* counted.
C1_Witness ==
  \E t \in DOMAIN store :
    /\ store[t].numTasksCompleted >= 2
    /\ Cardinality(Succeeded(t)) >= 2

\* C2: for every task at most one call receives just_completed = 1, it is
\* the call whose count equals numTasks, and the completion POSTs of the
\* task are at most one, made by that call only.
C2_SingleFire ==
  \A t \in TaskIds :
    /\ Cardinality(JustCompleted(t)) <= 1
    /\ \A j \in JustCompleted(t) : job[j].reply[1] = job[j].reply[2]
    /\ Cardinality(CompletionPosts(t)) <= 1
    /\ Cardinality(CompletionPosts(t)) = Cardinality(Posted(t))
    /\ Posted(t) \subseteq JustCompleted(t)

\* The completing call has posted and a later call of the same task got
\* just_completed = 0 with a count beyond the total.
C2_Witness ==
  \E j \in Jobs, k \in Jobs :
    /\ job[j].outcome = "posted"
    /\ job[k].task_id = job[j].task_id
    /\ ScriptDone(k) /\ job[k].reply[3] = 0
    /\ job[k].reply[1] > job[k].reply[2]
    /\ Len(posts) = 1

\* C3 as stated, for any numTasks >= 0: the status of a record is completed
\* when numTasksCompleted has reached numTasks and pending before.
C3_Original ==
  \A t \in DOMAIN store :
    /\ store[t].numTasksCompleted >= store[t].numTasks => store[t].status = "completed"
    /\ store[t].numTasksCompleted < store[t].numTasks => store[t].status = "pending"

\* C3 amended: for a record with numTasks >= 1 the status is completed
\* exactly when numTasksCompleted has reached numTasks; a record with
\* numTasks = 0 stays pending; the status changes only in the step that
\* makes numTasksCompleted equal numTasks, and completed is never left.
C3_StatusOnce ==
  /\ [](\A t \in DOMAIN store :
          /\ store[t].status \in {"pending", "completed"}
          /\ store[t].numTasks >= 1 =>
               (store[t].status = "completed"
                  <=> store[t].numTasksCompleted >= store[t].numTasks)
          /\ store[t].numTasks = 0 => store[t].status = "pending")
  /\ [][\A t \in DOMAIN store \cap DOMAIN store' :
          /\ store[t].status # store'[t].status
               <=> /\ store'[t].numTasksCompleted = store'[t].numTasks
                   /\ store'[t].numTasksCompleted = store[t].numTasksCompleted + 1
          /\ store[t].status = "completed" => store'[t].status = "completed"]_vars

\* A completed record that has received a callback after its completion.
C3_Witness ==
  \E t \in DOMAIN store :
    /\ store[t].status = "completed"
    /\ store[t].numTasksCompleted > store[t].numTasks

\* C4: in every record the length of results equals numTasksCompleted.
C4_ResultsLength ==
  \A t \in DOMAIN store : Len(store[t].results) = store[t].numTasksCompleted

\* A record that holds the entry of a callback without data and the
\* placeholder of a callback with an error only.
C4_Witness ==
  \E t \in DOMAIN store :
    /\ \E i \in 1..Len(store[t].results) : store[t].results[i].kind = "none"
    /\ \E i \in 1..Len(store[t].results) : store[t].results[i].error

\* C5 as stated: a call that received just_completed = 1 for a task whose
\* record holds a webhook URL (the WEBHOOK_URL of the process) goes on to
\* attempt the POST, whatever the stored results are. The calls whose
\* re-read found no record, failed at the store or was rejected by the
\* record schema are left aside.
C5_Claim ==
  \A j \in Jobs :
    ( /\ job[j].pc = "done"
      /\ job[j].reply[3] = 1
      /\ env.webhook_url # ""
      /\ job[j].outcome \notin {"notFound", "storeError", "invalidData"} )
    => job[j].outcome = "posted"

\* The flattened results a caller can see: the completion payloads posted
\* and the answer GET /task/{task_id}/results would give now.
VisibleResults ==
  {posts[i].results : i \in {k \in 1..Len(posts) : posts[k].kind = "completion"}}
    \cup {TaskResults(store, t).results : t \in TaskIds}

\* The entry callback j hands to the script.
EntryOf(j) == StoredData(job[j].data, job[j].error, j)

\* C6 as stated: no visible result comes from a callback that carried an
\* error object, with or without data.
C6_Original ==
  \A rs \in VisibleResults : \A i \in 1..Len(rs) : ~job[rs[i].origin].error

\* C6 amended: a callback with an error object and no data stores the
\* placeholder, which carries the error marker; no visible result comes from
\* an entry with an error marker (the placeholder, or data that has an error
\* field of its own); and the entry of such a callback is in the record once
\* its call succeeded, so it is counted.
C6_ErrorExcluded ==
  /\ \A rs \in VisibleResults : \A i \in 1..Len(rs) :
       /\ ~EntryOf(rs[i].origin).error
       /\ ~(job[rs[i].origin].error /\ ~Truthy(job[rs[i].origin].data))
  /\ \A j \in Jobs :
       (ScriptDone(j) /\ job[j].error /\ job[j].task_id \in DOMAIN store)
       => \E i \in 1..Len(store[job[j].task_id].results) :
            /\ store[job[j].task_id].results[i].origin = j
            /\ ~Truthy(job[j].data) => store[job[j].task_id].results[i].error

\* A completion payload and a GET answer that leave out the placeholder of
\* an error-only callback and hold the report of another callback.
C6_Witness ==
  \E t \in DOMAIN store, k \in 1..Len(posts) :
    /\ posts[k].kind = "completion" /\ posts[k].taskId = t
    /\ Len(posts[k].results) = 1
    /\ TaskResults(store, t).code = 200
    /\ TaskResults(store, t).results = posts[k].results
    /\ \E i \in 1..Len(store[t].results) :
         /\ store[t].results[i].error
         /\ store[t].results[i].companyId = NoCompany

\* C7 as stated: a completed record holds an entry for every companyId of
\* the batch.
C7_Original ==
  \A t \in DOMAIN store :
    store[t].status = "completed"
    => \A c \in 1..Len(formData[t]) :
         \E i \in 1..Len(store[t].results) :
           store[t].results[i].companyId = formData[t][c].companyId

\* C7 amended: a completed record belongs to a batch of at least one
\* company and holds at least as many entries as the batch has companies,
\* one per callback counted; the entries need not name every company.
C7_CountsCallbacks ==
  \A t \in DOMAIN store :
    store[t].status = "completed"
    => /\ store[t].numTasks = Len(formData[t])
       /\ store[t].numTasks >= 1
       /\ Len(store[t].results) >= store[t].numTasks

\* A completed record of a batch of two whose entries name one company only.
C7_Witness ==
  \E t \in DOMAIN store :
    /\ store[t].status = "completed"
    /\ store[t].numTasks = 2
    /\ \A i \in 1..Len(store[t].results) : store[t].results[i].companyId = 1

\* ---------------------------------------------------- the fan-out side
FanEnded(t) == fan[t].pc \in {"returned", "raised"}
EmptyPosts == {i \in 1..Len(posts) : posts[i].kind = "empty"}
QueuedFor(t) == {m \in BagToSet(queue) : m.task_id = t}

\* A step of the fan-out job of some task leaves the task store alone.
FanLeavesStore == (\E t \in TaskIds : fan[t] # fan'[t]) => store' = store

\* C8 as stated: once the fan-out job of an empty batch has run with a
\* webhook URL configured, {"results": []} was POSTed to that URL and no
\* message of the task is in the queue.
C8_Original ==
  \A t \in TaskIds :
    (FanEnded(t) /\ Len(formData[t]) = 0 /\ env.webhook_url # "")
    => /\ \E i \in EmptyPosts : posts[i].url = env.webhook_url /\ posts[i].results = <<>>
       /\ QueuedFor(t) = {}

\* C8 amended: the same, provided QUEUE_ENRICHMENT and
\* SERVICEBUS_CONNECTION_STRING are both set; the POST is made once, and no
\* step of the job changes the task store.
C8_EmptyBatch ==
  /\ [](\A t \in TaskIds :
          ( /\ FanEnded(t) /\ Len(formData[t]) = 0 /\ env.webhook_url # ""
            /\ env.queue_name /\ env.connection_string )
          => /\ Cardinality(EmptyPosts) = 1
             /\ \A i \in EmptyPosts :
                  posts[i].url = env.webhook_url /\ posts[i].results = <<>>
             /\ QueuedFor(t) = {})
  /\ [][FanLeavesStore]_vars

\* The job of an empty batch has ended, its POST is made and the record is
\* as written.
C8_Witness ==
  \E t \in DOMAIN store :
    /\ FanEnded(t) /\ Len(formData[t]) = 0
    /\ EmptyPosts # {}
    /\ store[t].status = "pending" /\ store[t].numTasks = 0
    /\ QueuedFor(t) = {}

\* C9: with QUEUE_ENRICHMENT or SERVICEBUS_CONNECTION_STRING absent the
\* fan-out job neither sends nor raises, the queue stays empty, no
\* {"results": []} POST is made, no step of the job changes the task store,
\* and the job only exists once the enqueue caller has its response.
C9_MissingConfig ==
  /\ []((~env.queue_name \/ ~env.connection_string)
          => /\ \A t \in TaskIds : fan[t].pc \in {"none", "scheduled", "returned"}
             /\ queue = EmptyBag
             /\ EmptyPosts = {}
             /\ \A t \in TaskIds : fan[t].pc # "none" => enq[t] = "responded")
  /\ [][FanLeavesStore]_vars

\* One of the two settings is absent, the job of a non-empty batch has
\* returned and the record is still as written.
C9_Witness ==
  \E t \in DOMAIN store :
    /\ env.queue_name /\ ~env.connection_string
    /\ fan[t].pc = "returned" /\ Len(formData[t]) > 0
    /\ store[t].status = "pending" /\ store[t].numTasksCompleted = 0
    /\ enq[t] = "responded"

\* C10: the store write of enqueue_enrichment leaves a record with status
\* pending, numTasks = the size of the batch, numTasksCompleted = 0 and no
\* results; the fan-out job is scheduled only after that write succeeded;
\* so every queue message and every callback of a worker that consumed one
\* belongs to a task whose record was written before.
C10_RecordFirst ==
  /\ [][\A t \in TaskIds :
          /\ (enq[t] = "idle" /\ enq'[t] = "written")
               => /\ t \in DOMAIN store'
                  /\ store'[t].status = "pending"
                  /\ store'[t].numTasks = Len(formData'[t])
                  /\ store'[t].numTasksCompleted = 0
                  /\ store'[t].results = <<>>
          /\ (fan[t].pc = "none" /\ fan'[t].pc # "none") => enq[t] = "written"]_vars
  /\ [](\A t \in TaskIds :
          /\ fan[t].pc # "none" => enq[t] = "responded"
          /\ QueuedFor(t) # {} => fan[t].pc \in {"sending", "returned", "raised"})
  /\ [](\A j \in Jobs :
          (job[j].fromQueue /\ job[j].pc # "idle")
          => /\ enq[job[j].task_id] = "responded"
             /\ QueuedFor(job[j].task_id) # {})

\* The callback of a worker that consumed a queue message has been counted
\* in the record of its task.
C10_Witness ==
  \E j \in Jobs :
    /\ job[j].fromQueue /\ ScriptDone(j)
    /\ job[j].task_id \in DOMAIN store
    /\ store[job[j].task_id].numTasksCompleted >= 1
    /\ QueuedFor(job[j].task_id) # {}

\* -------------------------------------------------- the polling side
\* A step of a polling endpoint: the response is a new one.
Polled == response' # response

\* C11 as stated: a polling endpoint answers NotFound exactly when no record
\* exists under the task id; for a record whose status is not completed
\* GET /task/{task_id}/results answers the in-progress message with the
\* record's numTasksCompleted and numTasks; and polling leaves the store as
\* it is.
C11_Claim ==
  [][Polled =>
       /\ response'.code = 404 <=> response'.task_id \notin DOMAIN store
       /\ ( /\ response'.endpoint = "results"
            /\ response'.task_id \in DOMAIN store
            /\ store[response'.task_id].status # "completed" )
          => /\ response'.code = 200
             /\ response'.status = store[response'.task_id].status
             /\ response'.progress =
                  <<store[response'.task_id].numTasksCompleted,
                    store[response'.task_id].numTasks>>
       /\ store' = store]_vars

\* --------------------------------------------------- the filter side
\* The value a flattened contact is to carry for a field of a report.
FlatValue(field) == IF field.shape = "absent" THEN NoValue ELSE field.value

\* The contacts of a report with a score of at least 0.5, flattened, in
\* their order.
RECURSIVE KeptFrom(_)
KeptFrom(cs) ==
  IF cs = <<>> THEN <<>>
  ELSE (IF Head(cs).confidenceScore >= 5
        THEN <<[fields |-> [f \in FieldNames |-> FlatValue(Head(cs).fields[f])],
                confidenceScore |-> Head(cs).confidenceScore]>>
        ELSE <<>>) \o KeptFrom(Tail(cs))

\* The reports in the store, as the filter reads them.
StoredReports ==
  UNION {{store[t].results[i] : i \in {k \in 1..Len(store[t].results) :
                                         store[t].results[k].kind = "report"}} :
         t \in DOMAIN store}

\* C12: for every worker report, as stored and as delivered, the filter
\* returns the report's companyId and companyName and exactly the contacts
\* whose confidenceScore is at least 0.5 (0.5 kept, lower or missing
\* dropped), in their original order.
C12_KeepsThreshold ==
  /\ \A x \in StoredReports :
       LET e == filter_low_confidence_contacts(x)
           r == job[x.origin].data
       IN /\ ~e.raised
          /\ e.companyId = r.companyId /\ e.companyName = r.companyName
          /\ e.contacts = KeptFrom(r.contacts.items)
  /\ \A rs \in VisibleResults : \A i \in 1..Len(rs) :
       LET r == job[rs[i].origin].data
       IN /\ rs[i].companyId = r.companyId /\ rs[i].companyName = r.companyName
          /\ rs[i].contacts = KeptFrom(r.contacts.items)

\* A completion payload that keeps the second contact of a report, scored
\* exactly 0.5, and drops the first, scored 0.4.
C12_Witness ==
  \E k \in 1..Len(posts) :
    /\ posts[k].kind = "completion" /\ Len(posts[k].results) = 1
    /\ LET e == posts[k].results[1]
           r == job[e.origin].data
       IN /\ Len(r.contacts.items) = 2
          /\ r.contacts.items[1].confidenceScore = 4
          /\ r.contacts.items[2].confidenceScore = 5
          /\ Len(e.contacts) = 1
          /\ e.contacts[1].confidenceScore = 5

\* A report is structured: every contact field is a nested object or absent.
Structured(r) ==
  \A i \in 1..Len(r.contacts.items) : \A f \in FieldNames :
    r.contacts.items[i].fields[f].shape # "plain"

\* The loosely-typed report with the same values: every nested object is
\* replaced by the plain value it holds.
LooseField(field) == IF field.shape = "nested" THEN Plain(field.value) ELSE field
LooseContact(contact) ==
  [contact EXCEPT !.fields = [f \in FieldNames |-> LooseField(contact.fields[f])]]
Loosen(r) ==
  [r EXCEPT !.contacts.items = [i \in 1..Len(r.contacts.items) |->
                                  LooseContact(r.contacts.items[i])]]

\* C13: for every structured worker report, as stored and as delivered, the
\* filter returns the same flattened contacts as for the loosely-typed
\* report with the same values and scores, and fails for neither.
C13_TypedEqualsLoose ==
  /\ \A x \in StoredReports :
       Structured(x)
       => /\ ~filter_low_confidence_contacts(x).raised
          /\ ~filter_low_confidence_contacts(Loosen(x)).raised
          /\ filter_low_confidence_contacts(x).contacts
               = filter_low_confidence_contacts(Loosen(x)).contacts
  /\ \A rs \in VisibleResults : \A i \in 1..Len(rs) :
       Structured(job[rs[i].origin].data)
       => rs[i].contacts
            = filter_low_confidence_contacts(Loosen(job[rs[i].origin].data)).contacts

\* A completion payload built on the typed path from a structured report
\* with a kept contact that has a nested and an absent field, whose
\* loosely-typed counterpart takes the fallback path.
C13_Witness ==
  \E k \in 1..Len(posts) :
    /\ posts[k].kind = "completion" /\ Len(posts[k].results) = 1
    /\ LET e == posts[k].results[1]
           r == job[e.origin].data
       IN /\ Structured(r) /\ TypedParses(r) /\ ~TypedParses(Loosen(r))
          /\ Len(e.contacts) >= 1
          /\ e.contacts[1].fields["email"] = NoValue
          /\ e.contacts[1].fields["role"] = "y"

\* ------------------------------------------------------------ progress
\* The callbacks submitted for task t whose script call did not fail.
Submitted(t) ==
  {j \in Jobs : job[j].task_id = t /\ (job[j].pc = "scheduled" \/ ScriptDone(j))}

\* C14: when the record of a task with numTasks = N >= 1 exists and N
\* callbacks for it have been submitted, the record eventually has status
\* completed, whatever the order in which the jobs run and whatever each
\* callback reports.
C14_EventuallyCompleted ==
  \A t \in TaskIds :
    (t \in DOMAIN store /\ store[t].numTasks >= 1
       /\ Cardinality(Submitted(t)) >= store[t].numTasks)
    ~> (t \in DOMAIN store /\ store[t].status = "completed")

\* A batch of two is completed by two callbacks on the same company, the
\* one submitted second being aggregated first.
C14_Witness ==
  \E t \in DOMAIN store :
    /\ store[t].status = "completed" /\ store[t].numTasks = 2
    /\ job[2].reply[1] = 1 /\ job[1].reply[1] = 2
    /\ job[1].data.companyId = job[2].data.companyId

\* -------------------------------------------------- the sending side
\* The message of the k-th company of the batch of task t.
MessageOf(t, k) ==
  [task_id |-> t, company_name |-> formData[t][k].companyName,
   company_id |-> formData[t][k].companyId]

\* The fan-out job of task t ended without an exception after sending.
SentAll(t) ==
  fan[t].pc = "returned" /\ Len(formData[t]) > 0 /\ env.queue_name /\ env.connection_string

\* C15 as stated: over the whole run every company has at most one message
\* in the queue, and exactly one once the job has ended successfully unless
\* its message was dropped as oversized.
C15_Original ==
  \A t \in TaskIds : \A k \in 1..Len(formData[t]) :
    /\ CopiesIn(MessageOf(t, k), queue) <= 1
    /\ (SentAll(t) /\ ~formData[t][k].large) => CopiesIn(MessageOf(t, k), queue) = 1

\* C15 amended: every company has at most one message per attempt begun,
\* so at most 3 in all; once the job has ended successfully a company whose
\* message fits has at least one message, and exactly one when no attempt
\* failed, and a company whose message is oversized has none; every batch
\* sent holds at most 10 messages.
C15_OncePerAttempt ==
  /\ [](\A t \in TaskIds : \A k \in 1..Len(formData[t]) :
          /\ CopiesIn(MessageOf(t, k), queue) <= fan[t].attempt + 1
          /\ CopiesIn(MessageOf(t, k), queue) <= 3
          /\ formData[t][k].large => CopiesIn(MessageOf(t, k), queue) = 0
          /\ (SentAll(t) /\ ~formData[t][k].large)
               => /\ CopiesIn(MessageOf(t, k), queue) >= 1
                  /\ fan[t].attempt = 0 => CopiesIn(MessageOf(t, k), queue) = 1)
  /\ [][BagCardinality(queue') <= BagCardinality(queue) + 10]_vars

\* The job of a batch of eleven has ended successfully at its second
\* attempt: the first attempt failed after its first batch of ten, and the
\* ten are in the queue twice, the eleventh once.
C15_Witness ==
  /\ SentAll("t1") /\ Len(formData["t1"]) = 11
  /\ fan["t1"].attempt = 1
  /\ CopiesIn(MessageOf("t1", 1), queue) = 2
  /\ CopiesIn(MessageOf("t1", 11), queue) = 1

\* C16: the fan-out job makes at most 3 attempts; a new attempt starts
\* only by the failure of the first or second attempt and starts from the
\* first batch; the job raises only by the failure of the third attempt; it
\* returns from sending only when an attempt has gone through all batches;
\* once ended it does nothing more; and a job that is sending ends.
C16_AtMostThreeAttempts ==
  /\ [](\A t \in TaskIds : fan[t].attempt \in 0..2)
  /\ [][\A t \in TaskIds :
          /\ fan'[t].attempt # fan[t].attempt
               => /\ fan[t].pc = "sending" /\ fan'[t].pc = "sending"
                  /\ fan[t].attempt < 2
                  /\ fan'[t].attempt = fan[t].attempt + 1
                  /\ fan'[t].i = 0
                  /\ queue' = queue
          /\ (fan[t].pc = "sending" /\ fan'[t].pc = "raised") => fan[t].attempt = 2
          /\ (fan[t].pc = "sending" /\ fan'[t].pc = "returned")
               => fan[t].i >= Len(formData[t])
          /\ FanEnded(t) => fan'[t] = fan[t]]_vars
  /\ \A t \in TaskIds : (fan[t].pc = "sending") ~> FanEnded(t)

\* The third attempt has failed and the job has raised, each attempt having
\* sent its batch.
C16_Witness ==
  /\ fan["t1"].pc = "raised" /\ fan["t1"].attempt = 2
  /\ Len(formData["t1"]) > 0
  /\ CopiesIn(MessageOf("t1", 1), queue) = 3

\* A job whose callback named a task that has no record in the store.
LostJob(j) == job[j].pc = "scheduled" /\ job[j].task_id \notin DOMAIN store

\* C17: a callback for a task with no record in the store (never created, or
\* expired) has been answered already, and its deferred job then ends at the
\* script: it creates no record, changes no existing record and POSTs nothing.
C17_LostCallback ==
  [][\A j \in Jobs :
       (LostJob(j) /\ job'[j] # job[j])
         => /\ store' = store
            /\ posts' = posts
            /\ job'[j].pc = "done"
            /\ job'[j].outcome = "scriptFailed"]_vars

\* A callback for the never created "t2" has ended at the script while the
\* record of "t1" stands untouched and a callback for "t1" is still to run.
C17_Witness ==
  \E j \in Jobs, k \in Jobs :
    /\ job[j].outcome = "scriptFailed" /\ job[j].task_id = "t2"
    /\ "t1" \in DOMAIN store
    /\ store["t1"].numTasksCompleted = 0 /\ store["t1"].results = <<>>
    /\ posts = <<>>
    /\ job[k].pc = "scheduled" /\ job[k].task_id = "t1"
\* The script has appended to the record of t and advanced its counter.
Appended(t) ==
  /\ t \in DOMAIN store /\ t \in DOMAIN store'
  /\ Len(store'[t].results) = Len(store[t].results) + 1

\* C18: a successful append-and-advance on task t changes only the results,
\* numTasksCompleted and status of t: the task_id, create_time, numTasks,
\* webhookUrl and errors of t and the record of every other task are left
\* as they were.
C18_Claim ==
  [][\A t \in TaskIds :
       Appended(t)
         => /\ store'[t].task_id = store[t].task_id
            /\ store'[t].create_time = store[t].create_time
            /\ store'[t].numTasks = store[t].numTasks
            /\ store'[t].webhookUrl = store[t].webhookUrl
            /\ store'[t].errors = store[t].errors
            /\ \A u \in TaskIds \ {t} :
                 /\ u \in DOMAIN store <=> u \in DOMAIN store'
                 /\ u \in DOMAIN store => store'[u] = store[u]]_vars
\* C19 as stated: the counter of a record never exceeds its total.
C19_Original ==
  \A t \in DOMAIN store : store[t].numTasksCompleted <= store[t].numTasks

\* C19 amended: the counter of a record is at most the number of callbacks
\* for that task that the script has served, and is below the total while
\* the record of a batch of at least one company is pending; nothing stops
\* it at the total.
C19_AtMostCallbacks ==
  \A t \in DOMAIN store :
    /\ store[t].numTasksCompleted <= Cardinality(Succeeded(t))
    /\ (store[t].status = "pending" /\ store[t].numTasks >= 1)
         => store[t].numTasksCompleted < store[t].numTasks

\* A completed record of a batch of one that two callbacks have counted.
C19_Witness ==
  \E t \in DOMAIN store :
    /\ store[t].status = "completed"
    /\ store[t].numTasks = 1
    /\ store[t].numTasksCompleted = 2
    /\ Cardinality(Succeeded(t)) = 2
\* The completion POSTs, and the callbacks whose entries a payload holds.
Completions == {posts[i] : i \in {k \in 1..Len(posts) : posts[k].kind = "completion"}}
OriginsOf(rs) == {rs[i].origin : i \in 1..Len(rs)}

\* C20 as stated: a completion payload holds entries of the callbacks up to
\* the completing one only, the first numTasks entries of the record, so at
\* most numTasks results.
C20_Original ==
  \A p \in Completions :
    /\ Len(p.results) <= Len(formData[p.taskId])
    /\ p.taskId \in DOMAIN store
         => OriginsOf(p.results)
              \subseteq OriginsOf(SubSeq(store[p.taskId].results, 1,
                                         store[p.taskId].numTasks))

\* C20 amended: a completion payload holds the entries without an error
\* marker that were in the record when the completing call read it again:
\* every such entry of the callbacks up to the completing one, and entries
\* of later callbacks as well, each entry once.
C20_BuiltFromReread ==
  \A p \in Completions :
    /\ Cardinality(OriginsOf(p.results)) = Len(p.results)
    /\ p.taskId \in DOMAIN store
         => LET rec == store[p.taskId]
                upTo == SubSeq(rec.results, 1, rec.numTasks)
            IN /\ Len(rec.results) >= rec.numTasks
               /\ OriginsOf(p.results) \subseteq OriginsOf(SelectSeq(rec.results, HasNoError))
               /\ OriginsOf(SelectSeq(upTo, HasNoError)) \subseteq OriginsOf(p.results)

\* A batch of one company whose completion payload holds two results: a
\* second callback was served between the completing call's script and its
\* reading of the record.
C20_Witness ==
  \E p \in Completions :
    /\ Len(formData[p.taskId]) = 1
    /\ Len(p.results) = 2
    /\ p.taskId \in DOMAIN store
    /\ store[p.taskId].results[1].origin \in OriginsOf(p.results)
====
